---- MODULE Spec2Model ----
(***************************************************************************)
(* Voice-capsule recorder: the useRecorder capture session                 *)
(* (src/src/hooks/useRecorder.ts) and the three-segment orchestration of   *)
(* the Recorder component (src/src/components/Recorder.tsx).               *)
(*                                                                         *)
(* One step of the model is one task of the browser's event loop: a UI     *)
(* event handler, a timer callback, the resolution of getUserMedia, the    *)
(* RecordRTC stop callback followed by the promise continuation it         *)
(* resolves, or the settlement of an upload.  The React state updates of   *)
(* a task are committed, and the effects they trigger run, before the next *)
(* task starts.  Values a closure captured when it was created (the        *)
(* position of the current segment) travel with the pending callback.      *)
(***************************************************************************)
EXTENDS Integers, Sequences, FiniteSets, Bags, TLC

\* ---------------------------------------------------------------- bounds
MaxCaptures == 3        \* budget of one run: device acquisitions granted, overlapping
                        \*   presses and handler calls without a rendered control
MaxHolds == 2           \* presses that may be down at the same time
MaxPendingStarts == 1   \* startRecording calls awaiting getUserMedia
MaxOverlaps == 1        \* presses made while another press is in progress
MaxForced == 2          \* handler calls made while the handler's control is not rendered
Limit == 2              \* the 60 s recording limit, in timer ticks
MaxPendingStops == 2    \* stop callbacks a caller of the session lets queue up
MaxRerecordCaptures == 5  \* budget of a run that re-records one segment

\* ------------------------------------------------------ program constants
SEGMENT_DURATION == Limit      \* Recorder.tsx: 60 ticks of 1 s
MAX_RECORDING_TIME == Limit    \* useRecorder.ts: 60 ticks of 1 s
MaxTime == Limit + 1           \* last value of recordingTime a stale timer reaches
MAX_RETRIES == 3
NumSegments == 3

Positions == 0 .. (NumSegments - 1)
NoBlob == 0
NoUrl == 0

VARIABLES
    segments,        \* Recorder: segments[p] = status, blob, uploadUrl, retryCount, errorMsg
    currentSegment,  \* Recorder: index of the current segment
    isHoldStarting,  \* Recorder: the debounce delay is running
    holdTimers,      \* pending setTimeout(HOLD_DELAY) callbacks, oldest first,
                     \*   each with the currentSegment its closure captured
    holdTimerRef,    \* TRUE iff holdTimerRef.current is a timer still pending
                     \*   (it is then the newest element of holdTimers)
    hook,            \* useRecorder: its React state and its refs
    stopCallbacks,   \* RecordRTC stopRecording callbacks not yet delivered
    pendingStarts,   \* startRecording calls awaiting getUserMedia
    recorders,       \* RecordRTC objects by id
    streams,         \* MediaStreams by id: how often their tracks were stopped
    uploads,         \* bag of uploadAudioSegment calls awaiting their result
    alertMsg,        \* the last alert() shown
    currentView,     \* App: "record" or "complete"
    appSegments,     \* App: the list handed over by onComplete
    holds,           \* presses currently down on the record button
    overlaps,        \* presses made so far while another press was in progress
    forced,          \* handler calls made so far while their control was not rendered
    stopSeqs,        \* per recorder: stop sequences the orchestrator began
    captures         \* per position: recordings started so far (the hold timer set
                     \*   the segment recording and called startRecording)

vars == << segments, currentSegment, isHoldStarting, holdTimers, holdTimerRef,
           hook, stopCallbacks, pendingStarts, recorders, streams, uploads,
           alertMsg, currentView, appSegments, holds, overlaps, forced,
           stopSeqs, captures >>

RecorderVars == << segments, currentSegment, isHoldStarting, holdTimers,
                   holdTimerRef, alertMsg >>
HookVars == << hook, stopCallbacks, pendingStarts, recorders, streams >>

\* ------------------------------------------------------------ initial state
InitSegment(p) ==
    [id |-> p, status |-> "pending", blob |-> NoBlob, uploadUrl |-> NoUrl,
     retryCount |-> 0, errorMsg |-> "none"]

InitState ==
    [isRecording |-> FALSE, isPaused |-> FALSE, recordingTime |-> 0,
     volume |-> 0,            \* 0 = silent, 1 = some sound
     error |-> "none", audioBlob |-> NoBlob]

InitHook ==
    [state |-> InitState,
     recorderRef |-> 0, streamRef |-> 0,
     timerRef |-> FALSE,      \* timerRef.current is a live interval
     volumeRef |-> FALSE,     \* volumeRef.current is a live interval
     staleTimers |-> 0]       \* live 1 Hz intervals no ref points to; each was
                              \*   created with a 10 Hz interval orphaned with it

\* The state after the Recorder is mounted, in a run whose budget is n.
InitRun(n) ==
    /\ segments = [p \in Positions |-> InitSegment(p)]
    /\ currentSegment = 0
    /\ isHoldStarting = FALSE
    /\ holdTimers = << >>
    /\ holdTimerRef = FALSE
    /\ hook = InitHook
    /\ stopCallbacks = << >>
    /\ pendingStarts = 0
    /\ recorders = [r \in 1 .. n |-> "unused"]
    /\ streams = [r \in 1 .. n |-> 0]
    /\ uploads = EmptyBag
    /\ alertMsg = "none"
    /\ currentView = "record"
    /\ appSegments = << >>
    /\ holds = 0
    /\ overlaps = 0
    /\ forced = 0
    /\ stopSeqs = [r \in 0 .. n |-> 0]
    /\ captures = [p \in Positions |-> 0]

Init == InitRun(MaxCaptures)

\* ------------------------------------------------------------- useRecorder
Min(a, b) == IF a < b THEN a ELSE b

NoCont == [kind |-> "none", seg |-> 0]

\* stopRecording(): clears the interval timerRef points to and, when a
\* recorder exists, asks RecordRTC to stop; the promise resolves in the
\* callback.  Without a recorder the promise resolves with null at once.
\* The result tells the caller which of the two happened.
stopRecording(h, q, cont) ==
    [hook |-> [h EXCEPT !.timerRef = FALSE, !.volumeRef = FALSE],
     stopCallbacks |-> IF h.recorderRef # 0
                         THEN Append(q, [rec |-> h.recorderRef, cont |-> cont])
                         ELSE q,
     resolvedNull |-> (h.recorderRef = 0)]

\* track.stop() on every track of stream s (0 = no stream).
StopTracks(st, s) ==
    IF s = 0 THEN st ELSE [st EXCEPT ![s] = Min(@ + 1, 2)]

\* resetRecording(): clears the referenced interval, stops the tracks of the
\* referenced stream, returns the React state to its initial value and drops
\* every ref.
resetRecording(h, st) ==
    [hook |-> [state |-> InitState, recorderRef |-> 0, streamRef |-> 0,
               timerRef |-> FALSE, volumeRef |-> FALSE,
               staleTimers |-> h.staleTimers],
     streams |-> StopTracks(st, h.streamRef)]

\* The value recorderRef.current?.getBlob() || null has once the recorder
\* table is rs: the blob of the recorder the ref points to now, if that
\* recorder has been finalised with data.
getBlob(h, rs) ==
    IF h.recorderRef # 0 /\ rs[h.recorderRef] = "ok" THEN h.recorderRef ELSE NoBlob

\* -------------------------------------------------- Recorder: segment store
SetSeg(segs, p, patch) ==
    [segs EXCEPT ![p] = [f \in DOMAIN @ |-> IF f \in DOMAIN patch THEN patch[f] ELSE @[f]]]

Upload(p, b) == [seg |-> p, blob |-> b]

InFlight(ups, p) ==
    LET S == {u \in BagToSet(ups) : u.seg = p}
        RECURSIVE Sum(_)
        Sum(T) == IF T = {} THEN 0
                  ELSE LET u == CHOOSE x \in T : TRUE
                       IN CopiesIn(u, ups) + Sum(T \ {u})
    IN Sum(S)

\* uploadSegment up to its await: the segment becomes uploading and the
\* upload client is called with the payload and the position.
uploadSegmentCall(segs, ups, b, p) ==
    [segments |-> SetSeg(segs, p, [status |-> "uploading"]),
     uploads |-> ups (+) SetToBag({Upload(p, b)})]

\* StopContinuation that reads the position when it runs, not the one its
\* stop sequence captured.
StopContinuationAtCursor(kind, segs, ups, b, p) ==
    IF b # NoBlob
      THEN LET u1 == uploadSegmentCall(segs, ups, b, currentSegment)
               rec == SetSeg(u1.segments, currentSegment,
                             [status |-> "recorded", blob |-> b])
           IN uploadSegmentCall(rec, u1.uploads, b, currentSegment)
      ELSE IF kind = "auto"
             THEN [segments |-> SetSeg(segs, currentSegment,
                                       [status |-> "error", errorMsg |-> "capture"]),
                   uploads |-> ups]
             ELSE [segments |-> segs, uploads |-> ups]

\* StopContinuation whose recorded update does not store the payload.
StopContinuationWithoutPayload(kind, segs, ups, b, p) ==
    IF b # NoBlob
      THEN LET u1 == uploadSegmentCall(segs, ups, b, p)
               rec == SetSeg(u1.segments, p, [status |-> "recorded"])
           IN uploadSegmentCall(rec, u1.uploads, b, p)
      ELSE IF kind = "auto"
             THEN [segments |-> SetSeg(segs, p, [status |-> "error", errorMsg |-> "capture"]),
                   uploads |-> ups]
             ELSE [segments |-> segs, uploads |-> ups]

\* StopContinuation whose capture-failure branch counts a retry.
StopContinuationCountingFailure(kind, segs, ups, b, p) ==
    IF b # NoBlob
      THEN LET u1 == uploadSegmentCall(segs, ups, b, p)
               rec == SetSeg(u1.segments, p, [status |-> "recorded", blob |-> b])
           IN uploadSegmentCall(rec, u1.uploads, b, p)
      ELSE IF kind = "auto"
             THEN [segments |-> SetSeg(segs, p, [status |-> "error", errorMsg |-> "capture",
                                                 retryCount |-> segs[p].retryCount + 1]),
                   uploads |-> ups]
             ELSE [segments |-> segs, uploads |-> ups]

\* What handleAutoStop and handleTouchEnd do once stopRecording() has
\* resolved with blob b (NoBlob = null), for the position p they captured.
\* With a payload: upload the MIME-corrected copy, mark the segment
\* recorded, upload the original.  Without one only handleAutoStop acts.
StopContinuation(kind, segs, ups, b, p) ==
    IF b # NoBlob
      THEN LET u1 == uploadSegmentCall(segs, ups, b, p)
               rec == SetSeg(u1.segments, p, [status |-> "recorded", blob |-> b])
           IN uploadSegmentCall(rec, u1.uploads, b, p)
      ELSE IF kind = "auto"
             THEN [segments |-> SetSeg(segs, p, [status |-> "error", errorMsg |-> "capture"]),
                   uploads |-> ups]
             ELSE [segments |-> segs, uploads |-> ups]

\* The part of handleAutoStop / handleTouchEnd from the processing update
\* up to the await, run on hook value h and callback queue q, and the
\* continuation when the promise is already resolved with null.
BeginStop(kind, h, q) ==
    LET p == currentSegment
        proc == SetSeg(segments, p, [status |-> "processing"])
        s == stopRecording(h, q, [kind |-> kind, seg |-> p])
        k == IF s.resolvedNull
               THEN StopContinuation(kind, proc, uploads, NoBlob, p)
               ELSE [segments |-> proc, uploads |-> uploads]
    IN /\ segments' = k.segments
       /\ uploads' = k.uploads
       /\ hook' = s.hook
       /\ stopCallbacks' = s.stopCallbacks
       /\ stopSeqs' = [stopSeqs EXCEPT ![h.recorderRef] = Min(@ + 1, 2)]

\* ------------------------------------------------- Recorder: what is shown
currentSeg == segments[currentSegment]
canRecord == currentSeg.status \in {"pending", "error"}
canProceed == \A p \in Positions : segments[p].status = "uploaded"

RecordButtonShown == canRecord
RecordButtonDisabled == hook.state.isRecording /\ ~isHoldStarting
StopButtonShown == canRecord /\ hook.state.isRecording
\* The next button rendered without looking at the segment's status.
NextButtonShownAnyStatus ==
    ~canRecord /\ currentSegment < 2

NextButtonShown ==
    ~canRecord /\ currentSeg.status = "uploaded" /\ currentSegment < 2
RetryButtonShown ==
    ~canRecord /\ currentSeg.status \in {"error", "uploaded"}
RetryUploadButtonShown ==
    ~canRecord /\ currentSeg.status = "error" /\ currentSeg.blob # NoBlob
CompleteButtonShown == canProceed

\* ------------------------------------------------------ Recorder: handlers
\* Each handler constrains every variable except holds, currentView and
\* appSegments.

\* handleTouchStart without the test of the segment's status.
handleTouchStartUnguarded ==
    /\ isHoldStarting' = TRUE
    /\ holdTimers' = Append(holdTimers, currentSegment)
    /\ holdTimerRef' = TRUE
    /\ UNCHANGED << segments, currentSegment, alertMsg, HookVars,
                    uploads, stopSeqs >>

handleTouchStart ==
    IF currentSeg.status \notin {"pending", "error"}
      THEN UNCHANGED << RecorderVars, HookVars, uploads, stopSeqs >>
      ELSE /\ isHoldStarting' = TRUE
           /\ holdTimers' = Append(holdTimers, currentSegment)
           /\ holdTimerRef' = TRUE
           /\ UNCHANGED << segments, currentSegment, alertMsg, HookVars,
                           uploads, stopSeqs >>

handleTouchEnd ==
    IF isHoldStarting
      THEN /\ holdTimers' = IF holdTimerRef
                              THEN SubSeq(holdTimers, 1, Len(holdTimers) - 1)
                              ELSE holdTimers
           /\ holdTimerRef' = FALSE
           /\ isHoldStarting' = FALSE
           /\ UNCHANGED << segments, currentSegment, alertMsg, HookVars,
                           uploads, stopSeqs >>
      ELSE IF ~hook.state.isRecording
                \/ hook.state.recordingTime >= SEGMENT_DURATION
             THEN UNCHANGED << RecorderVars, HookVars, uploads, stopSeqs >>
             ELSE /\ BeginStop("manual", hook, stopCallbacks)
                  /\ UNCHANGED << currentSegment, isHoldStarting, holdTimers,
                                  holdTimerRef, alertMsg, pendingStarts,
                                  recorders, streams >>

handleManualStop ==
    IF ~hook.state.isRecording
      THEN UNCHANGED << RecorderVars, HookVars, uploads, stopSeqs >>
      ELSE handleTouchEnd

\* handleRetryUpload with the cap compared by > instead of >=.
handleRetryUploadOffByOne ==
    IF currentSeg.blob = NoBlob \/ currentSeg.retryCount > MAX_RETRIES
      THEN /\ alertMsg' = "cannotRetryUpload"
           /\ UNCHANGED << segments, currentSegment, isHoldStarting, holdTimers,
                           holdTimerRef, HookVars, uploads, stopSeqs >>
      ELSE LET u == uploadSegmentCall(segments, uploads, currentSeg.blob,
                                      currentSegment)
           IN /\ segments' = u.segments
              /\ uploads' = u.uploads
              /\ UNCHANGED << currentSegment, isHoldStarting, holdTimers,
                              holdTimerRef, alertMsg, HookVars, stopSeqs >>

handleRetryUpload ==
    IF currentSeg.blob = NoBlob \/ currentSeg.retryCount >= MAX_RETRIES
      THEN /\ alertMsg' = "cannotRetryUpload"
           /\ UNCHANGED << segments, currentSegment, isHoldStarting, holdTimers,
                           holdTimerRef, HookVars, uploads, stopSeqs >>
      ELSE LET u == uploadSegmentCall(segments, uploads, currentSeg.blob,
                                      currentSegment)
           IN /\ segments' = u.segments
              /\ uploads' = u.uploads
              /\ UNCHANGED << currentSegment, isHoldStarting, holdTimers,
                              holdTimerRef, alertMsg, HookVars, stopSeqs >>

\* handleRetry without the retryCount guard.
handleRetryNoCap ==
    LET r == resetRecording(hook, streams)
    IN /\ segments' = SetSeg(segments, currentSegment,
                             [status |-> "pending", blob |-> NoBlob,
                              uploadUrl |-> NoUrl, errorMsg |-> "none"])
       /\ hook' = r.hook
       /\ streams' = r.streams
       /\ UNCHANGED << currentSegment, isHoldStarting, holdTimers,
                       holdTimerRef, alertMsg, stopCallbacks,
                       pendingStarts, recorders, uploads, stopSeqs >>

handleRetry ==
    IF currentSeg.retryCount >= MAX_RETRIES
      THEN /\ alertMsg' = "tooManyRetries"
           /\ UNCHANGED << segments, currentSegment, isHoldStarting, holdTimers,
                           holdTimerRef, HookVars, uploads, stopSeqs >>
      ELSE LET r == resetRecording(hook, streams)
           IN /\ segments' = SetSeg(segments, currentSegment,
                                    [status |-> "pending", blob |-> NoBlob,
                                     uploadUrl |-> NoUrl, errorMsg |-> "none"])
              /\ hook' = r.hook
              /\ streams' = r.streams
              /\ UNCHANGED << currentSegment, isHoldStarting, holdTimers,
                              holdTimerRef, alertMsg, stopCallbacks,
                              pendingStarts, recorders, uploads, stopSeqs >>

\* handleNextSegment without the test of the position.
handleNextSegmentUnbounded ==
    LET r == resetRecording(hook, streams)
    IN /\ currentSegment' = currentSegment + 1
       /\ hook' = r.hook
       /\ streams' = r.streams
       /\ UNCHANGED << segments, isHoldStarting, holdTimers, holdTimerRef,
                       alertMsg, stopCallbacks, pendingStarts, recorders,
                       uploads, stopSeqs >>

handleNextSegment ==
    IF currentSegment < 2
      THEN LET r == resetRecording(hook, streams)
           IN /\ currentSegment' = currentSegment + 1
              /\ hook' = r.hook
              /\ streams' = r.streams
              /\ UNCHANGED << segments, isHoldStarting, holdTimers, holdTimerRef,
                              alertMsg, stopCallbacks, pendingStarts, recorders,
                              uploads, stopSeqs >>
      ELSE UNCHANGED << RecorderVars, HookVars, uploads, stopSeqs >>

\* handleComplete without the allUploaded test.
handleCompleteUnchecked ==
    /\ appSegments' = [i \in 1 .. NumSegments |-> segments[i - 1]]
    /\ currentView' = "complete"
    /\ UNCHANGED << RecorderVars, HookVars, uploads, stopSeqs >>

\* handleComplete and, through onComplete, App.handleRecordComplete.
handleComplete ==
    IF \A p \in Positions : segments[p].status = "uploaded"
      THEN /\ appSegments' = [i \in 1 .. NumSegments |-> segments[i - 1]]
           /\ currentView' = "complete"
           /\ UNCHANGED << RecorderVars, HookVars, uploads, stopSeqs >>
      ELSE /\ alertMsg' = "waitForUploads"
           /\ UNCHANGED << segments, currentSegment, isHoldStarting, holdTimers,
                           holdTimerRef, HookVars, uploads, stopSeqs,
                           currentView, appSegments >>

\* ------------------------------------------------- timers and completions
AppVars == << currentView, appSegments, overlaps, forced, captures >>

\* App renders the Recorder only in the record view; once the view is left
\* the component is unmounted and its callbacks no longer change anything.
Mounted == currentView = "record"

\* The setTimeout(HOLD_DELAY) callback of handleTouchStart, oldest first.
\* startRecording() runs up to its await of getUserMedia.
HoldTimerFire ==
    /\ Mounted
    /\ holdTimers # << >>
    /\ pendingStarts < MaxPendingStarts
    /\ LET seg == Head(holdTimers)
       IN /\ isHoldStarting' = FALSE
          /\ segments' = SetSeg(segments, seg, [status |-> "recording"])
          /\ holdTimers' = Tail(holdTimers)
          /\ holdTimerRef' = (Len(holdTimers) > 1 /\ holdTimerRef)
          /\ hook' = [hook EXCEPT !.state.error = "none"]
          /\ pendingStarts' = pendingStarts + 1
          /\ captures' = [captures EXCEPT ![seg] = Min(@ + 1, MAX_RETRIES + 2)]
    /\ UNCHANGED << currentSegment, alertMsg, stopCallbacks, recorders, streams,
                    uploads, stopSeqs, holds, currentView, appSegments,
                    overlaps, forced >>

\* Recorders (and streams) are numbered in the order they are created.
Used == Cardinality({r \in DOMAIN recorders : recorders[r] # "unused"})
NextId == Used + 1

\* What a run has spent of its exploration budget Len(recorders): device
\* acquisitions granted, presses made while another press was in progress,
\* handler calls made while the handler's control was not rendered.
Spent == Used + overlaps + forced

\* startRecording() after getUserMedia granted a stream.
GetUserMediaGranted ==
    /\ Mounted
    /\ pendingStarts > 0
    /\ Spent < Len(recorders)
    /\ pendingStarts' = pendingStarts - 1
    /\ recorders' = [recorders EXCEPT ![NextId] = "recording"]
    /\ hook' = [hook EXCEPT !.streamRef = NextId,
                            !.recorderRef = NextId,
                            !.state.isRecording = TRUE,
                            !.state.isPaused = FALSE,
                            !.state.recordingTime = 0,
                            !.timerRef = TRUE,
                            !.volumeRef = TRUE,
                            !.staleTimers = IF hook.timerRef THEN @ + 1 ELSE @]
    /\ UNCHANGED << RecorderVars, stopCallbacks, streams, uploads, stopSeqs,
                    holds, AppVars >>

\* startRecording's catch block with one message for every failure.
errorMessageGeneric(reason) == "startFailed"

\* The message startRecording's catch block chooses for a thrown error.
errorMessage(reason) ==
    CASE reason = "NotAllowedError" -> "permissionDenied"
      [] reason = "NotFoundError" -> "noDevice"
      [] OTHER -> "startFailed"

\* startRecording() after getUserMedia threw.
GetUserMediaFailed(reason) ==
    /\ Mounted
    /\ pendingStarts > 0
    /\ pendingStarts' = pendingStarts - 1
    /\ hook' = [hook EXCEPT !.state.error = errorMessage(reason)]
    /\ UNCHANGED << RecorderVars, stopCallbacks, recorders, streams, uploads,
                    stopSeqs, holds, AppVars >>

\* Tick without the auto-stop effect of Recorder: only the hook acts.
TickWithoutEffect(which) ==
    /\ Mounted
    /\ \/ which = "ref" /\ hook.timerRef
       \/ which = "stale" /\ hook.staleTimers > 0
    /\ hook.state.recordingTime < MaxTime
    /\ LET newTime == hook.state.recordingTime + 1
           s == IF newTime >= MAX_RECORDING_TIME
                  THEN stopRecording(hook, stopCallbacks, NoCont)
                  ELSE [hook |-> hook, stopCallbacks |-> stopCallbacks]
       IN /\ hook' = [s.hook EXCEPT !.state.recordingTime = newTime]
          /\ stopCallbacks' = s.stopCallbacks
    /\ UNCHANGED << segments, uploads, stopSeqs, currentSegment, isHoldStarting,
                    holdTimers, holdTimerRef, alertMsg, pendingStarts, recorders,
                    streams, holds, AppVars >>

\* One firing of a 1 Hz interval ("ref": the one timerRef points to,
\* "stale": one no ref points to), then the auto-stop effect of Recorder,
\* which runs because recordingTime changed.
Tick(which) ==
    /\ Mounted
    /\ \/ which = "ref" /\ hook.timerRef
       \/ which = "stale" /\ hook.staleTimers > 0
    /\ hook.state.recordingTime < MaxTime
    /\ LET newTime == hook.state.recordingTime + 1
           s == IF newTime >= MAX_RECORDING_TIME
                  THEN stopRecording(hook, stopCallbacks, NoCont)
                  ELSE [hook |-> hook, stopCallbacks |-> stopCallbacks]
           h == [s.hook EXCEPT !.state.recordingTime = newTime]
       IN IF h.state.isRecording /\ newTime >= SEGMENT_DURATION
            THEN BeginStop("auto", h, s.stopCallbacks)      \* handleAutoStop
            ELSE /\ hook' = h
                 /\ stopCallbacks' = s.stopCallbacks
                 /\ UNCHANGED << segments, uploads, stopSeqs >>
    /\ UNCHANGED << currentSegment, isHoldStarting, holdTimers, holdTimerRef,
                    alertMsg, pendingStarts, recorders, streams, holds, AppVars >>

\* RecordRTC delivers the i-th pending stop callback (callbacks of one
\* recorder in the order of the calls).  ok: the recorder, finalised by its
\* first callback, has data.  The promise continuation of the stop sequence
\* that made the call runs right after.
StopCallback(i, ok) ==
    /\ Mounted
    /\ i \in 1 .. Len(stopCallbacks)
    /\ LET e == stopCallbacks[i]
           rs == IF recorders[e.rec] = "recording"
                   THEN [recorders EXCEPT ![e.rec] = IF ok THEN "ok" ELSE "failed"]
                   ELSE recorders
           blob == getBlob(hook, rs)
           k == IF e.cont.kind = "none"
                  THEN [segments |-> segments, uploads |-> uploads]
                  ELSE StopContinuation(e.cont.kind, segments, uploads, blob, e.cont.seg)
       IN /\ \A j \in 1 .. (i - 1) : stopCallbacks[j].rec # e.rec
          /\ (recorders[e.rec] # "recording") => ok
          /\ recorders' = rs
          /\ hook' = [hook EXCEPT !.state.isRecording = FALSE,
                                  !.state.isPaused = FALSE,
                                  !.state.audioBlob = blob,
                                  !.state.volume = 0]
          /\ streams' = StopTracks(streams, hook.streamRef)
          /\ stopCallbacks' = [j \in 1 .. (Len(stopCallbacks) - 1) |->
                                  IF j < i THEN stopCallbacks[j] ELSE stopCallbacks[j + 1]]
          /\ segments' = k.segments
          /\ uploads' = k.uploads
    /\ UNCHANGED << currentSegment, isHoldStarting, holdTimers, holdTimerRef,
                    alertMsg, pendingStarts, stopSeqs, holds, AppVars >>

\* uploadSegment whose success branch forgets uploadUrl.
UploadResultWithoutUrl(u, ok) ==
    /\ Mounted
    /\ u \in BagToSet(uploads)
    /\ uploads' = uploads (-) SetToBag({u})
    /\ segments' =
         IF ok
           THEN SetSeg(segments, u.seg, [status |-> "uploaded"])
           ELSE SetSeg(segments, u.seg,
                       [status |-> "error",
                        retryCount |-> segments[u.seg].retryCount + 1,
                        errorMsg |-> "upload"])
    /\ UNCHANGED << currentSegment, isHoldStarting, holdTimers, holdTimerRef,
                    alertMsg, HookVars, stopSeqs, holds, AppVars >>

\* uploadSegment after uploadAudioSegment settled: ok is result.success; a
\* failure result and a thrown error take the same catch branch.
UploadResult(u, ok) ==
    /\ Mounted
    /\ u \in BagToSet(uploads)
    /\ uploads' = uploads (-) SetToBag({u})
    /\ segments' =
         IF ok
           THEN SetSeg(segments, u.seg, [status |-> "uploaded", uploadUrl |-> u.blob])
           ELSE SetSeg(segments, u.seg,
                       [status |-> "error",
                        retryCount |-> segments[u.seg].retryCount + 1,
                        errorMsg |-> "upload"])
    /\ UNCHANGED << currentSegment, isHoldStarting, holdTimers, holdTimerRef,
                    alertMsg, HookVars, stopSeqs, holds, AppVars >>

\* --------------------------------------------------------------- UI events
\* A control delivers its event only while it is rendered.
Press ==
    /\ Mounted
    /\ RecordButtonShown /\ ~RecordButtonDisabled
    /\ holds < MaxHolds /\ Len(holdTimers) < MaxHolds
    /\ (holds > 0 \/ holdTimers # << >>) =>
           overlaps < MaxOverlaps /\ Spent < Len(recorders)
    /\ handleTouchStart
    /\ holds' = holds + 1
    /\ overlaps' = IF holds > 0 \/ holdTimers # << >> THEN overlaps + 1 ELSE overlaps
    /\ UNCHANGED << currentView, appSegments, forced, captures >>

\* The release of a press: delivered to handleTouchEnd if the record button
\* is still rendered, lost with the unmounted button otherwise.
Release ==
    /\ Mounted
    /\ holds > 0
    /\ holds' = holds - 1
    /\ IF RecordButtonShown
         THEN handleTouchEnd
         ELSE UNCHANGED << RecorderVars, HookVars, uploads, stopSeqs >>
    /\ UNCHANGED AppVars

StopClick ==
    /\ Mounted
    /\ StopButtonShown
    /\ handleManualStop
    /\ UNCHANGED << holds, AppVars >>

RetryClick ==
    /\ Mounted
    /\ RetryButtonShown
    /\ handleRetry
    /\ UNCHANGED << holds, AppVars >>

NextClick ==
    /\ Mounted
    /\ NextButtonShown
    /\ handleNextSegment
    /\ UNCHANGED << holds, AppVars >>

CompleteClick ==
    /\ Mounted
    /\ CompleteButtonShown
    /\ handleComplete
    /\ UNCHANGED << holds, overlaps, forced, captures >>

Failures == {"NotAllowedError", "NotFoundError", "other"}

Next ==
    \/ Press
    \/ Release
    \/ StopClick
    \/ RetryClick
    \/ NextClick
    \/ CompleteClick
    \/ HoldTimerFire
    \/ GetUserMediaGranted
    \/ \E reason \in Failures : GetUserMediaFailed(reason)
    \/ \E which \in {"ref", "stale"} : Tick(which)
    \/ \E i \in 1 .. Len(stopCallbacks), ok \in BOOLEAN : StopCallback(i, ok)
    \/ \E u \in BagToSet(uploads), ok \in BOOLEAN : UploadResult(u, ok)

Spec == Init /\ [][Next]_vars

\* ------------------------------------------------- handlers as commands
\* The orchestrator seen as a state machine that receives commands: a handler
\* is also called while the control bound to it is not rendered.
Forced(shown) ==
    /\ Mounted
    /\ ~shown
    /\ forced < MaxForced /\ Spent < Len(recorders)
    /\ forced' = forced + 1

RetryUploadCommand ==
    /\ Forced(RetryUploadButtonShown)
    /\ handleRetryUpload
    /\ UNCHANGED << holds, overlaps, currentView, appSegments, captures >>

RetryCommand ==
    /\ Forced(RetryButtonShown)
    /\ handleRetry
    /\ UNCHANGED << holds, overlaps, currentView, appSegments, captures >>

NextCommand ==
    /\ Forced(NextButtonShown)
    /\ handleNextSegment
    /\ UNCHANGED << holds, overlaps, currentView, appSegments, captures >>

CompleteCommand ==
    /\ Forced(CompleteButtonShown)
    /\ handleComplete
    /\ UNCHANGED << holds, overlaps, captures >>

StopCommand ==
    /\ Forced(StopButtonShown)
    /\ handleManualStop
    /\ UNCHANGED << holds, overlaps, currentView, appSegments, captures >>

TouchStartCommand ==
    /\ Forced(RecordButtonShown)
    /\ Len(holdTimers) < MaxHolds
    /\ handleTouchStart
    /\ UNCHANGED << holds, overlaps, currentView, appSegments, captures >>

TouchEndCommand ==
    /\ Forced(RecordButtonShown)
    /\ handleTouchEnd
    /\ UNCHANGED << holds, overlaps, currentView, appSegments, captures >>

NextCommands ==
    \/ Next
    \/ RetryUploadCommand
    \/ RetryCommand
    \/ NextCommand
    \/ CompleteCommand
    \/ StopCommand
    \/ TouchStartCommand
    \/ TouchEndCommand

SpecCommands == Init /\ [][NextCommands]_vars

\* ------------------------------------------- re-recording one segment
\* The Recorder with a user who records and re-records the first segment
\* and neither advances nor completes: one finger, every start granted the
\* device, and a new hold or re-record request only once the timers,
\* completions and uploads of the recording before have all been
\* delivered.  The run has the budget MaxRerecordCaptures.
InitRerecord == InitRun(MaxRerecordCaptures)

Settled ==
    /\ holds = 0
    /\ holdTimers = << >>
    /\ pendingStarts = 0
    /\ stopCallbacks = << >>
    /\ uploads = EmptyBag

NextRerecord ==
    \/ Settled /\ Press
    \/ Release
    \/ Settled /\ RetryClick
    \/ HoldTimerFire
    \/ GetUserMediaGranted
    \/ \E which \in {"ref", "stale"} : Tick(which)
    \/ \E i \in 1 .. Len(stopCallbacks), ok \in BOOLEAN : StopCallback(i, ok)
    \/ \E u \in BagToSet(uploads), ok \in BOOLEAN : UploadResult(u, ok)

SpecRerecord == InitRerecord /\ [][NextRerecord]_vars

\* -------------------------------------------- the capture session alone
\* useRecorder as a component of its own: a caller issues start, stop,
\* pause, resume and reset in any order; the Recorder variables stay as
\* they are initially.
OutsideSession == << RecorderVars, uploads, stopSeqs, holds, AppVars >>

\* pauseRecording without the test of state.isRecording.
pauseRecordingUnguarded(h) ==
    IF h.recorderRef # 0
      THEN [h EXCEPT !.timerRef = FALSE, !.volumeRef = FALSE,
                     !.state.isPaused = TRUE]
      ELSE h

\* pauseRecording(): both intervals are cleared (the refs keep the dead ids).
pauseRecording(h) ==
    IF h.recorderRef # 0 /\ h.state.isRecording
      THEN [h EXCEPT !.timerRef = FALSE, !.volumeRef = FALSE,
                     !.state.isPaused = TRUE]
      ELSE h

\* resumeRecording(): both intervals are created anew.
resumeRecording(h) ==
    IF h.recorderRef # 0 /\ h.state.isPaused
      THEN [h EXCEPT !.staleTimers = IF h.timerRef THEN @ + 1 ELSE @,
                     !.timerRef = TRUE, !.volumeRef = TRUE,
                     !.state.isPaused = FALSE]
      ELSE h

\* startRecording() up to its await of getUserMedia.
StartCall ==
    /\ pendingStarts < MaxPendingStarts
    /\ hook' = [hook EXCEPT !.state.error = "none"]
    /\ pendingStarts' = pendingStarts + 1
    /\ UNCHANGED << stopCallbacks, recorders, streams, OutsideSession >>

\* stopRecording() called from outside the hook.
StopCall ==
    /\ Len(stopCallbacks) < MaxPendingStops
    /\ LET s == stopRecording(hook, stopCallbacks, NoCont)
       IN /\ hook' = s.hook
          /\ stopCallbacks' = s.stopCallbacks
    /\ UNCHANGED << pendingStarts, recorders, streams, OutsideSession >>

PauseCall ==
    /\ hook' = pauseRecording(hook)
    /\ UNCHANGED << stopCallbacks, pendingStarts, recorders, streams,
                    OutsideSession >>

ResumeCall ==
    /\ hook' = resumeRecording(hook)
    /\ UNCHANGED << stopCallbacks, pendingStarts, recorders, streams,
                    OutsideSession >>

ResetCall ==
    /\ LET r == resetRecording(hook, streams)
       IN /\ hook' = r.hook
          /\ streams' = r.streams
    /\ UNCHANGED << stopCallbacks, pendingStarts, recorders, OutsideSession >>

\* One firing of a 1 Hz interval with no Recorder mounted on the hook.
SessionTick(which) ==
    /\ \/ which = "ref" /\ hook.timerRef
       \/ which = "stale" /\ hook.staleTimers > 0
    /\ hook.state.recordingTime < MaxTime
    /\ LET newTime == hook.state.recordingTime + 1
           s == IF newTime >= MAX_RECORDING_TIME
                  THEN stopRecording(hook, stopCallbacks, NoCont)
                  ELSE [hook |-> hook, stopCallbacks |-> stopCallbacks]
       IN /\ hook' = [s.hook EXCEPT !.state.recordingTime = newTime]
          /\ stopCallbacks' = s.stopCallbacks
    /\ UNCHANGED << pendingStarts, recorders, streams, OutsideSession >>

\* One firing of a 10 Hz volume interval: v is the normalised volume read
\* from the analyser, which exists from a granted start to the next reset
\* (as streamRef does).
VolumeTick(which, v) ==
    /\ \/ which = "ref" /\ hook.volumeRef
       \/ which = "stale" /\ hook.staleTimers > 0
    /\ hook.streamRef # 0
    /\ hook' = [hook EXCEPT !.state.volume = v]
    /\ UNCHANGED << stopCallbacks, pendingStarts, recorders, streams,
                    OutsideSession >>

SessionNext ==
    \/ StartCall
    \/ StopCall
    \/ PauseCall
    \/ ResumeCall
    \/ ResetCall
    \/ GetUserMediaGranted
    \/ \E reason \in Failures : GetUserMediaFailed(reason)
    \/ \E which \in {"ref", "stale"} : SessionTick(which)
    \/ \E which \in {"ref", "stale"}, v \in {0, 1} : VolumeTick(which, v)
    \/ \E i \in 1 .. Len(stopCallbacks), ok \in BOOLEAN : StopCallback(i, ok)

SpecSession == Init /\ [][SessionNext]_vars

TypeOK ==
    /\ currentSegment \in Positions
    /\ \A p \in Positions : segments[p].status \in
          {"pending", "recording", "processing", "recorded", "uploading", "uploaded", "error"}

\* ================================================================== claims

\* C1: in every reachable state and for every position, the segment's
\* uploadUrl is non-null if and only if its status is uploaded.
C1_UrlIffUploaded ==
    \A p \in Positions :
        (segments[p].uploadUrl # NoUrl) <=> (segments[p].status = "uploaded")

\* C2: for one recording, the orchestrator executes at most one stop
\* sequence (handleAutoStop or handleTouchEnd past its guards): the later
\* stop path is a no-op.
C2_OneStopSequence ==
    \A r \in 1 .. MaxCaptures : stopSeqs[r] <= 1

\* C3: at every moment at most one upload call is in flight for any given
\* position.
C3_OneUploadInFlight ==
    \A p \in Positions : InFlight(uploads, p) <= 1

\* C4: a debounce timer fires (sets the segment recording and issues
\* start()) only while a press is still down: a hold released before the
\* delay has elapsed never issues start().
C4_ReleasedHoldNeverStarts ==
    [][HoldTimerFire => holds > 0]_vars

\* C5: whenever elapsed time reaches SEGMENT_DURATION while the session is
\* recording, handleAutoStop runs in that same tick: the current segment is
\* processing and the step ends with the orchestrator's stop() call on the
\* live recorder, whose continuation is handleAutoStop's for that segment.
C5_AutoStopSameTick ==
    [][(/\ hook.state.isRecording
        /\ hook.state.recordingTime < SEGMENT_DURATION
        /\ hook'.state.recordingTime >= SEGMENT_DURATION)
       => (/\ segments'[currentSegment].status = "processing"
           /\ Len(stopCallbacks') > Len(stopCallbacks)
           /\ stopCallbacks'[Len(stopCallbacks')] =
                  [rec |-> hook.recorderRef,
                   cont |-> [kind |-> "auto", seg |-> currentSegment]])]_vars

C5_Witness ==
    /\ hook.state.isRecording
    /\ hook.state.recordingTime = SEGMENT_DURATION
    /\ currentSeg.status = "processing"
    /\ \E i \in 1 .. Len(stopCallbacks) : stopCallbacks[i].cont.kind = "auto"

\* C6: in every reachable state every segment's retryCount is between 0 and
\* MAX_RETRIES inclusive.
C6_RetryCountCapped ==
    \A p \in Positions :
        segments[p].retryCount >= 0 /\ segments[p].retryCount <= MAX_RETRIES

\* C7: a retry-upload request on a segment whose retryCount >= MAX_RETRIES
\* is rejected and surfaced: an alert is shown, no upload is invoked and the
\* segment records are unchanged.
C7_RetryUploadRejectedAtCap ==
    [][(/\ RetryUploadCommand \/ (RetryUploadButtonShown /\ handleRetryUpload)
        /\ currentSeg.retryCount >= MAX_RETRIES)
       => (/\ segments' = segments
           /\ uploads' = uploads
           /\ alertMsg' = "cannotRetryUpload")]_vars

C7_Witness ==
    /\ alertMsg = "cannotRetryUpload"
    /\ currentSeg.status = "error"
    /\ currentSeg.blob # NoBlob
    /\ currentSeg.retryCount >= MAX_RETRIES

C10_CompleteOnlyWhenAllUploaded ==
    [][/\ (currentView' = "complete")
          => (/\ \A p \in Positions : segments[p].status = "uploaded"
              /\ appSegments' = [i \in 1 .. NumSegments |-> segments[i - 1]])
       /\ (/\ CompleteCommand \/ CompleteClick
           /\ ~(\A p \in Positions : segments[p].status = "uploaded"))
          => (/\ currentView' = "record"
              /\ appSegments' = appSegments
              /\ segments' = segments
              /\ currentSegment' = currentSegment
              /\ hook' = hook)]_vars

C10_Witness ==
    /\ currentView = "complete"
    /\ \A i \in 1 .. NumSegments : appSegments[i].status = "uploaded"

C12_StatusEdges ==
    { <<"pending", "recording">>, <<"recording", "processing">>,
      <<"processing", "recorded">>, <<"processing", "error">>,
      <<"recorded", "uploading">>, <<"uploading", "uploaded">>,
      <<"uploading", "error">>, <<"error", "recording">>,
      <<"error", "uploading">>, <<"error", "pending">>,
      <<"uploaded", "pending">>, <<"processing", "uploading">> }

C12_StatusGraph ==
    [][\A p \in Positions :
          \/ segments'[p].status = segments[p].status
          \/ <<segments[p].status, segments'[p].status>> \in C12_StatusEdges]_vars

\* C13: in the scenario's manual branch the hold, sustained past the
\* debounce so that segment 0 is recording with a capture running, is
\* released before the limit: the release takes the segment to processing
\* (from where a successful capture and upload take it on to uploaded).
C13_ReleaseStopsRecording ==
    [][(/\ Release
        /\ currentSeg.status = "recording"
        /\ hook.state.isRecording
        /\ ~isHoldStarting
        /\ hook.state.recordingTime < SEGMENT_DURATION)
       => segments'[currentSegment].status = "processing"]_vars

\* C14: once a segment is uploaded, its status and its uploadUrl change
\* only by a re-record request on it (handleRetry, which returns it to
\* pending); no upload result and no capture event changes them.
C14_UploadedIsTerminal ==
    [][\A p \in Positions :
          (/\ segments[p].status = "uploaded"
           /\ \/ segments'[p].status # "uploaded"
              \/ segments'[p].uploadUrl # segments[p].uploadUrl)
          => (/\ RetryClick
              /\ p = currentSegment
              /\ segments'[p].status = "pending")]_vars

\* C15: a start() whose device acquisition fails changes nothing of the
\* session but its error field: a session that was not recording is left
\* not recording and not paused, no timer is started, no recorder or stream
\* is created; and the error is set to a message that tells the reason
\* (permission refused, no device found, anything else) from the other two.
C15_FailedStartOnlySetsError ==
    [][\A reason \in Failures :
          GetUserMediaFailed(reason)
          => (/\ [hook' EXCEPT !.state.error = "none"]
                    = [hook EXCEPT !.state.error = "none"]
              /\ ~hook.state.isRecording
                    => (~hook'.state.isRecording /\ ~hook'.state.isPaused)
              /\ hook'.timerRef = hook.timerRef
              /\ hook'.volumeRef = hook.volumeRef
              /\ recorders' = recorders
              /\ streams' = streams
              /\ hook'.state.error # "none"
              /\ \A other \in Failures \ {reason} :
                     hook'.state.error # errorMessage(other))]_vars

C15_Witness ==
    /\ hook.state.error = "noDevice"
    /\ ~hook.state.isRecording
    /\ ~hook.timerRef
    /\ hook.streamRef = 0
    /\ pendingStarts = 0

\* C16: when the start() issued for a segment that a hold has put in
\* recording fails, and no capture is active and no other start is pending,
\* the orchestrator moves that segment to error.
C16_FailedStartMarksError ==
    [][\A reason \in Failures :
          (/\ GetUserMediaFailed(reason)
           /\ currentSeg.status = "recording"
           /\ ~hook.state.isRecording
           /\ pendingStarts = 1)
          => segments'[currentSegment].status = "error"]_vars

\* C17: when the stop() of a stop sequence, auto or manual, yields a null
\* payload (the recorder finalises without data), the continuation moves
\* the segment it captured to error with the capture-failure message and
\* invokes no upload.
C17_NullPayloadMarksError ==
    [][\A i \in 1 .. Len(stopCallbacks) :
          (/\ \E ok \in BOOLEAN : StopCallback(i, ok)
           /\ stopCallbacks[i].cont.kind # "none"
           /\ getBlob(hook, recorders') = NoBlob)
          => (/\ segments'[stopCallbacks[i].cont.seg].status = "error"
              /\ segments'[stopCallbacks[i].cont.seg].errorMsg = "capture"
              /\ uploads' = uploads)]_vars

\* C18: stop() called while no capture is active (the session is not
\* recording and no start is pending) resolves with null at once: it asks
\* no recorder to finalise and leaves the session state unchanged.
C18_StopWithoutCaptureIsNoOp ==
    [][(/\ StopCall
        /\ ~hook.state.isRecording
        /\ pendingStarts = 0)
       => (/\ stopCallbacks' = stopCallbacks
           /\ hook'.state = hook.state)]_vars

\* The session as it is before any start(): initial state, no timer, no
\* recorder, no stream.
C19_NeverStarted ==
    /\ hook.state = InitState
    /\ ~hook.timerRef /\ ~hook.volumeRef
    /\ hook.recorderRef = 0 /\ hook.streamRef = 0

\* C19: reset(), from whatever state, leaves the session as it is before
\* any start() - initial state, both timers cancelled, the device it held
\* released - with nothing left over that changes it later (no timer no
\* ref points to, no start() still awaiting the device); and the session
\* stays like that until start() is called again.
C19_ResetRestoresInitial ==
    [][/\ ResetCall
          => (/\ C19_NeverStarted'
              /\ hook.streamRef # 0 => streams'[hook.streamRef] > 0
              /\ hook'.staleTimers = 0
              /\ pendingStarts' = 0)
       /\ (C19_NeverStarted /\ pendingStarts = 0) => C19_NeverStarted']_vars

\* C20: each recording is finalised once: a recorder is asked to stop at
\* most once, so at no time are two stop callbacks pending for one recorder,
\* nor one for a recorder that has been finalised already (whose callback
\* would write audioBlob a second time).
C20_FinalizedOnce ==
    \A i \in 1 .. Len(stopCallbacks) :
        /\ recorders[stopCallbacks[i].rec] = "recording"
        /\ \A j \in 1 .. Len(stopCallbacks) :
               i # j => stopCallbacks[i].rec # stopCallbacks[j].rec

\* C21: a timer tick - of the elapsed-time interval or of the volume
\* interval - fires only on a session that is recording and not paused:
\* after stop(), pause() or reset() nothing ticks until the next start()
\* or resume().
C21_NoTickUnlessRecording ==
    [][(\/ \E which \in {"ref", "stale"} : SessionTick(which)
        \/ \E which \in {"ref", "stale"}, v \in {0, 1} : VolumeTick(which, v))
       => (hook.state.isRecording /\ ~hook.state.isPaused)]_vars

\* C22: in every reachable state of the capture session, isPaused implies
\* isRecording.
C22_PausedImpliesRecording ==
    hook.state.isPaused => hook.state.isRecording

C22_Witness ==
    /\ hook.state.isPaused
    /\ hook.state.isRecording
    /\ Len(stopCallbacks) > 0
    /\ hook.state.recordingTime > 0

\* C24: currentSegment is always in 0..2, and every step leaves it as it
\* is or adds exactly 1 to it.
C24_CursorMonotone ==
    [][/\ currentSegment \in 0 .. 2
       /\ currentSegment' \in 0 .. 2
       /\ \/ currentSegment' = currentSegment
          \/ currentSegment' = currentSegment + 1]_vars

C24_Witness ==
    /\ currentSegment = 2
    /\ forced > 0
    /\ segments[2].status = "pending"

\* C26: a segment's retryCount changes only when an upload of that segment
\* fails, and each failed upload adds exactly 1 to it.
C26_RetryCountOnlyOnUploadFailure ==
    [][/\ \A p \in Positions :
             (segments'[p].retryCount # segments[p].retryCount)
             => (/\ \E u \in BagToSet(uploads) : u.seg = p /\ UploadResult(u, FALSE)
                 /\ segments'[p].retryCount = segments[p].retryCount + 1)
       /\ \A u \in BagToSet(uploads) :
             UploadResult(u, FALSE)
             => segments'[u.seg].retryCount = segments[u.seg].retryCount + 1]_vars

C26_Witness ==
    \E p \in Positions :
        /\ segments[p].retryCount = 1
        /\ segments[p].status = "error"
        /\ segments[p].errorMsg = "capture"

\* C27: a retry-upload request made while the current segment is not in
\* error (while it is uploading, for one) is rejected: no upload call is
\* started and the segments are unchanged.
C27_RetryUploadOnlyFromError ==
    [][(/\ RetryUploadCommand
        /\ currentSeg.status # "error")
       => (/\ uploads' = uploads
           /\ segments' = segments)]_vars

\* The current segment is in error with a payload stored and retries left.
C28_CanRetryUpload ==
    /\ Mounted
    /\ currentSeg.status = "error"
    /\ currentSeg.blob # NoBlob
    /\ currentSeg.retryCount < MAX_RETRIES

\* C28: whenever the current segment is in error with a payload stored and
\* retryCount < MAX_RETRIES, the retry-upload control is offered to the
\* user; and a retry-upload request made then moves the segment to
\* uploading and calls the upload client with the stored payload and the
\* segment's position, leaving the capture session as it is.
C28_RetryUploadAvailable ==
    /\ [](C28_CanRetryUpload => RetryUploadButtonShown)
    /\ [][(C28_CanRetryUpload /\ RetryUploadCommand)
          => (/\ segments'[currentSegment].status = "uploading"
              /\ uploads' = uploads (+) SetToBag({Upload(currentSegment, currentSeg.blob)})
              /\ hook' = hook
              /\ pendingStarts' = pendingStarts)]_vars

\* C29: when a new recording of a segment starts (the hold timer fires for
\* a segment that is pending or in error), the payload stored for the
\* segment by an earlier recording is cleared, so that no retry-upload can
\* send it afterwards.
C29_PayloadClearedOnRerecord ==
    [][(/\ HoldTimerFire
        /\ segments[Head(holdTimers)].status \in {"pending", "error"})
       => segments'[Head(holdTimers)].blob = NoBlob]_vars

\* C30: in every reachable state a segment whose status is uploading has a
\* payload stored.
C30_UploadingHasPayload ==
    \A p \in Positions :
        (segments[p].status = "uploading") => (segments[p].blob # NoBlob)

C30_Witness ==
    \E p \in Positions :
        /\ segments[p].status = "uploading"
        /\ segments[p].blob # NoBlob
        /\ segments[p].retryCount > 0
        /\ stopCallbacks # << >>

\* C25: no reachable state of the recording view is a dead end.  From every
\* state some sequence of offered user actions and system events leads to
\* all segments uploaded; so in a state where no start awaits the device
\* and no timer is live, at least one action of the recording flow is
\* offered to the user or one system event (hold timer, stop completion,
\* upload result) is pending.  (The back button, which discards the whole
\* session and its segments, recovers none of them and is no such action.)
C25_NoDeadEnd ==
    (/\ Mounted
     /\ pendingStarts = 0
     /\ ~hook.timerRef
     /\ hook.staleTimers = 0)
    => ENABLED Next

\* C23: each segment is re-recorded at most MAX_RETRIES times: for every
\* position, the recordings started after the first one number at most
\* MAX_RETRIES, however the re-record came about (re-record request on an
\* uploaded or error segment, or a hold on an error segment).
C23_RerecordsCapped ==
    \A p \in Positions : captures[p] <= 1 + MAX_RETRIES

\* C31: a press on a current segment whose status is neither pending nor
\* error is a no-op: no debounce timer is armed, no segment changes and
\* nothing is asked of the capture session, so nothing follows from it
\* later either.
C31_PressIgnored ==
    [][TouchStartCommand
       => UNCHANGED << RecorderVars, HookVars, uploads, stopSeqs >>]_vars

C31_Witness ==
    /\ forced > 0
    /\ currentSeg.status = "uploaded"
    /\ holdTimers = << >>
    /\ ~isHoldStarting
    /\ alertMsg = "none"
    /\ InFlight(uploads, currentSegment) = 0

\* C32: pause() while recording cancels both timers and keeps the device
\* and the elapsed time; while the session stays paused its elapsed time
\* does not change, and resume() leaves it as it is, so that counting
\* continues from the value it had before the pause; pause() when not
\* recording and resume() when not paused change nothing.
C32_PauseResume ==
    [][/\ (PauseCall /\ hook.state.isRecording)
          => (/\ ~hook'.timerRef /\ ~hook'.volumeRef
              /\ hook'.state.isPaused
              /\ hook'.streamRef = hook.streamRef
              /\ streams' = streams
              /\ hook'.state.recordingTime = hook.state.recordingTime)
       /\ (hook.state.isPaused /\ hook'.state.isPaused)
          => hook'.state.recordingTime = hook.state.recordingTime
       /\ (ResumeCall /\ hook.state.isPaused)
          => (/\ hook'.timerRef /\ hook'.volumeRef
              /\ ~hook'.state.isPaused
              /\ hook'.state.recordingTime = hook.state.recordingTime)
       /\ (PauseCall /\ ~hook.state.isRecording) => hook' = hook
       /\ (ResumeCall /\ ~hook.state.isPaused) => hook' = hook]_vars

\* C33: every stream start() acquired is released exactly once: the tracks
\* of no stream are stopped a second time, and a stream the session no
\* longer refers to (after reset(), or after another start() replaced it)
\* has been released.
C33_StreamReleasedOnce ==
    \A s \in DOMAIN streams :
        /\ streams[s] <= 1
        /\ (recorders[s] # "unused" /\ hook.streamRef # s) => streams[s] >= 1

\* C34: the completion of a stop() made for one capture does not touch a
\* capture started after it: when it is delivered while the session holds
\* a later recorder, it leaves isRecording as it is, does not stop the
\* tracks of the later stream and does not report the later recorder's
\* payload.
C34_TeardownBeforeNewCapture ==
    [][\A i \in 1 .. Len(stopCallbacks) :
          (/\ \E ok \in BOOLEAN : StopCallback(i, ok)
           /\ hook.recorderRef > stopCallbacks[i].rec)
          => (/\ hook'.state.isRecording = hook.state.isRecording
              /\ streams'[hook.streamRef] = streams[hook.streamRef]
              /\ hook'.state.audioBlob # hook.recorderRef)]_vars

\* C35: the elapsed time is always between 0 and SEGMENT_DURATION, and a
\* timer tick on a session that is recording and not paused adds exactly 1
\* to it.
C35_ElapsedInRange ==
    [][/\ hook'.state.recordingTime \in 0 .. SEGMENT_DURATION
       /\ (/\ \E which \in {"ref", "stale"} : Tick(which)
           /\ hook.state.isRecording /\ ~hook.state.isPaused)
          => hook'.state.recordingTime = hook.state.recordingTime + 1]_vars

\* C36: a release that arrived between the firing of the debounce timer
\* and the granting of the device is not lost: when the start is granted
\* with no press down any more, the capture does not begin, or begins with
\* its stop already requested.
C36_ReleaseDuringStartNotLost ==
    [][(GetUserMediaGranted /\ holds = 0)
       => \/ ~hook'.state.isRecording
          \/ \E i \in 1 .. Len(stopCallbacks') :
                 stopCallbacks'[i].rec = hook'.recorderRef]_vars

\* C37: in every reachable state at most one debounce timer is pending, no
\* elapsed-time or volume interval is live without a ref pointing to it
\* (so at most one of each is live), and at most one acquired stream is
\* unreleased.
C37_OneTimerOneStream ==
    /\ Len(holdTimers) <= 1
    /\ hook.staleTimers = 0
    /\ Cardinality({s \in DOMAIN streams :
                       recorders[s] # "unused" /\ streams[s] = 0}) <= 1

\* C38: an upload result changes the segments only if the segment it is
\* for is still uploading the payload that was submitted; a result that
\* arrives after the segment has moved on (uploaded, re-recorded, reset to
\* pending) is ignored.
C38_LateUploadResultIgnored ==
    [][\A u \in BagToSet(uploads) :
          (/\ \E ok \in BOOLEAN : UploadResult(u, ok)
           /\ ~(/\ segments[u.seg].status = "uploading"
                /\ segments[u.seg].blob = u.blob))
          => segments' = segments]_vars

\* C39: in every reachable state the capture session is recording only if
\* the current segment is recording or processing, and no segment other
\* than the current one is recording or processing.
C39_RecordingOnlyForCurrent ==
    /\ hook.state.isRecording => currentSeg.status \in {"recording", "processing"}
    /\ \A p \in Positions \ {currentSegment} :
           segments[p].status \notin {"recording", "processing"}

====
